---------------------------- MODULE Spec2Model ----------------------------
(***************************************************************************)
(* Ingestion pipeline of jus_back: the orchestrator (backend/main.py), the *)
(* QueueManager and its per-media consumers (utils/queue_manager.py), the  *)
(* extraction step with its file moves (backend/mcp_server.py), the        *)
(* DatabaseManager (utils/db_manager.py) and the direct variant            *)
(* (utils/processing_manager.py).                                          *)
(*                                                                         *)
(* File names are records [stem, ext]; ext is the suffix after the dot,    *)
(* as Path(name).suffix yields it (the tables of get_file_type are written *)
(* without the leading dot).  A physical file is a positive number: the    *)
(* three directories map a name to the file stored under it, 0 for none.   *)
(***************************************************************************)
EXTENDS Integers, Sequences, FiniteSets, TLC

\* ------------------------------------------------------------ bounds
MaxFiles == 2      \* uploads (physical files written to staging) per run
MaxMsgs == 2       \* messages published per run
MaxInits == 1      \* calls of DatabaseManager.initialize per run
MaxConns == 6      \* connections opened by get_connection callers per run
MaxZipLen == 2     \* entries of an uploaded archive

\* ------------------------------------------------------------ file names
Names ==
  { [stem |-> "a", ext |-> "pdf"],
    [stem |-> "b", ext |-> "mp3"],
    [stem |-> "c", ext |-> "xyz"] }

NoName == [stem |-> "", ext |-> ""]

\* entries only an archive brings: a directory entry ("docs/", whose suffix
\* is empty), an entry inside a sub-directory, and an upper-case extension
DirectoryEntries == { [stem |-> "docs/", ext |-> ""] }

SubdirEntries == { [stem |-> "docs/c", ext |-> "xyz"] }

EntryNames ==
  Names \cup DirectoryEntries \cup SubdirEntries \cup { [stem |-> "d", ext |-> "PDF"] }

\* a Word document, uploaded through /process-file
DocxNames == { [stem |-> "e", ext |-> "docx"] }

\* every name a file of the upload directory can have
FileNames == EntryNames \cup DocxNames

\* str.lower() on the extension spellings used here
Lower(e) ==
  CASE e = "PDF" -> "pdf"
    [] e = "Mp3" -> "mp3"
    [] e = "JPG" -> "jpg"
    [] e = "MOV" -> "mov"
    [] e = "XYZ" -> "xyz"
    [] OTHER -> e

\* main.py get_file_type: the four extension tables
AudioExt == {"mp3", "wav", "ogg", "opus", "m4a"}
DocumentExt == {"pdf", "docx", "xlsx", "xls", "txt", "vcf"}
ImageExt == {"jpg", "jpeg", "png"}
VideoExt == {"mp4", "avi", "mov"}

None == "None"

\* the same lookup on the suffix as written, without lower()
get_file_type_cased(n) ==
  IF n.ext \in AudioExt THEN "audio"
  ELSE IF n.ext \in DocumentExt THEN "document"
  ELSE IF n.ext \in ImageExt THEN "image"
  ELSE IF n.ext \in VideoExt THEN "video"
  ELSE None

get_file_type(n) ==
  LET ext == Lower(n.ext) IN
  IF ext \in AudioExt THEN "audio"
  ELSE IF ext \in DocumentExt THEN "document"
  ELSE IF ext \in ImageExt THEN "image"
  ELSE IF ext \in VideoExt THEN "video"
  ELSE None

\* ------------------------------------------------------------ queues
MediaTypes == {"audio", "document", "image", "video"}

QueueName(t) ==
  CASE t = "audio" -> "audio_processing"
    [] t = "document" -> "document_processing"
    [] t = "image" -> "image_processing"
    [] t = "video" -> "video_processing"

Failed(q) ==
  CASE q = "audio_processing" -> "audio_processing_failed"
    [] q = "document_processing" -> "document_processing_failed"
    [] q = "image_processing" -> "image_processing_failed"
    [] q = "video_processing" -> "video_processing_failed"

PrimaryQueues == {QueueName(t) : t \in MediaTypes}
FailedQueues == {Failed(q) : q \in PrimaryQueues}
Queues == PrimaryQueues \cup FailedQueues

\* PurgeOrder without the last pair of queues
PurgeOrderShort ==
  << "audio_processing", "audio_processing_failed",
     "document_processing", "document_processing_failed",
     "image_processing", "image_processing_failed" >>

\* purge_queues visits the queues in this order, one awaited purge each
PurgeOrder ==
  << "audio_processing", "audio_processing_failed",
     "document_processing", "document_processing_failed",
     "image_processing", "image_processing_failed",
     "video_processing", "video_processing_failed" >>

\* The bindings of the exchange 'dlx'.  connect() declares the exchange and
\* the queue declarations declare {q}_failed, but nothing ever binds a queue
\* to 'dlx'; a declared queue is bound to the default exchange only.
DlxBindings == {}

\* the queues a message rejected on q (requeue=False) is dead-lettered to:
\* it is published to 'dlx' with routing key {q}_failed
DeadLetterTargets(q) == {b.queue : b \in {x \in DlxBindings : x.key = Failed(q)}}

VARIABLES
  staging, processed, unprocessed,  \* directories: name -> physical file, 0 = absent
  nextFile,                         \* next physical file id
  queue,                            \* ready messages of each queue
  nextMsg,                          \* next message id
  cur, hpc,                         \* per consumer: unacked message, handler position
  rows,                             \* table processed_content, in insertion order
  settle,                           \* per message id: settlements the broker received
  raised,                           \* message ids whose handler ended in an unhandled exception
  purgePc, duringPurge,             \* purge_queues: queues purged so far; ids published meanwhile
  dpc, dkey,                        \* direct variant tasks: position, content being saved
  dfile,                            \* direct variant tasks: the file of the current iteration
  zipLeft, zipPc, stats, log,       \* process_zip: entries left, position, accumulator, saved log
  all_files,                        \* process_zip: the name list of the archive being processed
  zipCalls,                         \* process_zip: the calls it made after its loop, in order
  conn, pool, leased, closedConns, nextConn, inits,  \* DatabaseManager
  closing,                          \* DatabaseManager.close() has drained the pool and not returned
  lock, cpc,                        \* pool mutex holder; position of each get_connection caller
  exitHow,                          \* how the scope being released ended
  inflight,                         \* process_queue consumers: delivered, unsettled messages
  saveFailed,                       \* message ids whose save_processed_content raised
  channel,                          \* QueueManager.channel: "open" or "closed"
  consumers,                        \* queues with a consumer registered at the broker
  qstatus                           \* result of the check_queue_status call just made

fileVars == <<staging, processed, unprocessed, nextFile>>
brokerVars == <<queue, nextMsg, cur, settle, raised>>
purgeVars == <<purgePc, duringPurge>>
directVars == <<dpc, dkey, dfile>>
zipVars == <<zipLeft, zipPc, stats, log, all_files, zipCalls>>
poolVars == <<conn, pool, leased, closedConns, nextConn, inits, lock, cpc, exitHow, closing>>
pqVars == <<inflight>>
chanVars == <<channel, consumers, qstatus>>
vars == <<fileVars, brokerVars, hpc, rows, purgeVars, directVars, zipVars, poolVars, pqVars,
          saveFailed, chanVars>>

NoMsg == [id |-> 0, kind |-> "none", file_name |-> NoName, body |-> << >>,
          delivery_mode |-> "none"]
\* qstatus while no check_queue_status result is pending
NoStatus == << -1, -1 >>

NoKey == [file_name |-> NoName, file_type |-> "", content_type |-> "", content |-> ""]

\* message ids: those of the MaxMsgs published messages, and room for the
\* second copies of the redelivery scenario
MsgIds == 1..(2 * MaxMsgs)

DirectTasks == {"d1", "d2"}
Callers == {"t1", "t2"}


\* ------------------------------------------------------------ helpers
IdsIn(seq) == {seq[i].id : i \in DOMAIN seq}

\* the payload main.py builds for file n (paths are the name below the
\* staging directory and the names of the two terminal directories)
task_data(n) ==
  [file_path |-> n, file_name |-> n,
   processed_dir |-> "processed", unprocessed_dir |-> "unprocessed"]

\* json.dumps of a payload: the members in insertion order, as the text of
\* a JSON object lists them
json_dumps(d) ==
  << <<"file_path", d.file_path>>, <<"file_name", d.file_name>>,
     <<"processed_dir", d.processed_dir>>, <<"unprocessed_dir", d.unprocessed_dir>> >>

\* json.loads of such a text: the mapping from member name to value
json_loads(b) ==
  [k \in {b[i][1] : i \in DOMAIN b} |->
     b[CHOOSE i \in DOMAIN b : b[i][1] = k][2]]

\* the message enqueue_task publishes for file n; file_name is the field
\* the consumers read from the decoded body
TaskMsg(i, n) ==
  [id |-> i, kind |-> "task", file_name |-> n, body |-> json_dumps(task_data(n)),
   delivery_mode |-> "PERSISTENT"]

\* bodies a handler cannot use: "garbage" is not decodable JSON, "nofield" is
\* JSON without file_name / file_path
MalformedKinds == {"garbage", "nofield"}

\* ------------------------------------------------------------ broker
\* basic.publish through the default exchange, routing key = queue name
PublishFanout(qs, q, m) == [x \in Queues |-> IF x \in PrimaryQueues THEN Append(qs[x], m) ELSE qs[x]]

Publish(qs, q, m) == [qs EXCEPT ![q] = Append(@, m)]

\* basic.reject(requeue=False) of message m consumed from q: the broker
\* republishes m through 'dlx' with the queue's dead-letter routing key
DeadLetter(qs, q, m) ==
  [x \in Queues |-> IF x \in DeadLetterTargets(q) THEN Append(qs[x], m) ELSE qs[x]]

\* ------------------------------------------------------------ DatabaseManager.save_processed_content
\* a SELECT that never finds the row
ExistingNever(key) == FALSE

\* SELECT id FROM processed_content WHERE file_name = ? AND file_type = ?
Existing(key) ==
  \E i \in DOMAIN rows :
    rows[i].file_name = key.file_name /\ rows[i].file_type = key.file_type

\* INSERT INTO processed_content (file_name, file_type, content_type, ...)
InsertRow(key) == Append(rows, key)

\* ------------------------------------------------------------ DocumentProcessor
\* DocumentProcessor.__init__: the extensions that have an extraction routine
supported_extensions == {"txt", "pdf", "xlsx", "xls", "vcf"}

\* the text of a file as an extractor returns it
Text == "text"

\* what DocumentProcessor.process returns for an extension without routine
Placeholder == "Formato nao suportado"

\* DocumentProcessor.process on an existing, readable file n: the text its
\* routine extracts, or the placeholder string when the lower-cased
\* extension has no routine
process(n) ==
  IF Lower(n.ext) \in supported_extensions THEN Text ELSE Placeholder

\* ------------------------------------------------------------ DocumentMCPServer.process_*
\* the content_data each process_* method hands to save_processed_content
\* for a message consumed from queue q
ContentKey(q, n) ==
  CASE q = "audio_processing" ->
         [file_name |-> n, file_type |-> "audio", content_type |-> "audio",
          content |-> Text]
    [] q = "image_processing" ->
         [file_name |-> n, file_type |-> "image", content_type |-> "image",
          content |-> Text]
    [] q = "video_processing" ->
         [file_name |-> n, file_type |-> "video", content_type |-> "video",
          content |-> Text]
    [] q = "document_processing" ->
         [file_name |-> n, file_type |-> Lower(n.ext), content_type |-> "document",
          content |-> process(n)]

\* an except branch that leaves the source file where it is
LeaveInStaging(n) == UNCHANGED <<unprocessed, staging>>

\* the except branch of process_*: the source file, if it still exists, is
\* renamed into unprocessed/ (os.rename replaces a file of the same name)
MoveToUnprocessed(n) ==
  IF staging[n] # 0
    THEN /\ unprocessed' = [unprocessed EXCEPT ![n] = staging[n]]
         /\ staging' = [staging EXCEPT ![n] = 0]
    ELSE UNCHANGED <<unprocessed, staging>>

\* ------------------------------------------------------------ consumer handlers
\* The handlers registered by startup_event (process_audio_message, ...):
\*   try:
\*       async with message.process():      # ack on exit, reject(requeue=False) on exception
\*           body = json.loads(...); await self.mcp_server.process_X(...)
\*   except Exception: await message.reject(requeue=False)
\* When the body raises, message.process() has rejected the message before the
\* except clause runs; the second reject raises MessageProcessError out of the
\* handler and sends nothing to the broker.
\* (RequeueCur: the same with requeue=True, the message going back to q.)
RequeueCur(q) ==
  /\ queue' = [queue EXCEPT ![q] = << cur[q] >> \o @]
  /\ settle' = [settle EXCEPT ![cur[q].id] = Append(@, "requeue")]
  /\ raised' = raised \cup {cur[q].id}
  /\ cur' = [cur EXCEPT ![q] = NoMsg]
  /\ hpc' = [hpc EXCEPT ![q] = "idle"]

\* a settlement attempted after the channel was closed: ack() / reject()
\* raise, nothing reaches the broker, and the exception leaves the handler
SettleLost(q) ==
  /\ raised' = raised \cup {cur[q].id}
  /\ cur' = [cur EXCEPT ![q] = NoMsg]
  /\ hpc' = [hpc EXCEPT ![q] = "idle"]
  /\ UNCHANGED <<queue, settle>>

\* a failing handler that also ends the consumer of q
RejectCurStop(q) ==
  /\ queue' = DeadLetter(queue, q, cur[q])
  /\ settle' = [settle EXCEPT ![cur[q].id] = Append(@, "reject")]
  /\ raised' = raised \cup {cur[q].id}
  /\ cur' = [cur EXCEPT ![q] = NoMsg]
  /\ hpc' = [hpc EXCEPT ![q] = "stopped"]

RejectCur(q) ==
  IF channel = "open"
    THEN /\ queue' = DeadLetter(queue, q, cur[q])
         /\ settle' = [settle EXCEPT ![cur[q].id] = Append(@, "reject")]
         /\ raised' = raised \cup {cur[q].id}
         /\ cur' = [cur EXCEPT ![q] = NoMsg]
         /\ hpc' = [hpc EXCEPT ![q] = "idle"]
    ELSE SettleLost(q)

\* a settlement that rejects where the handler acknowledges
NackCur(q) == RejectCur(q)

AckCur(q) ==
  IF channel = "open"
    THEN /\ settle' = [settle EXCEPT ![cur[q].id] = Append(@, "ack")]
         /\ cur' = [cur EXCEPT ![q] = NoMsg]
         /\ hpc' = [hpc EXCEPT ![q] = "idle"]
         /\ UNCHANGED <<queue, raised>>
    ELSE SettleLost(q)

\* The broker hands the head of q to q's consumer; prefetch_count = 1 lets it
\* do so only while the consumer holds no unacknowledged message.
Deliver(q) ==
  /\ q \in consumers
  /\ hpc[q] = "idle"
  /\ cur[q] = NoMsg
  /\ queue[q] # << >>
  /\ cur' = [cur EXCEPT ![q] = Head(queue[q])]
  /\ queue' = [queue EXCEPT ![q] = Tail(@)]
  /\ hpc' = [hpc EXCEPT ![q] = "extract"]
  /\ UNCHANGED <<fileVars, nextMsg, settle, raised, rows, purgeVars, directVars, zipVars, poolVars, pqVars, saveFailed>>
  /\ UNCHANGED chanVars

\* Decoding and extraction, up to the call of save_processed_content.
\* ok: whether the collaborator returns a non-empty text for an existing file.
Extract(q, ok) ==
  /\ hpc[q] = "extract"
  /\ LET m == cur[q] IN
       IF m.kind \in MalformedKinds
         THEN \* json.loads / body['file_name'] raises inside message.process()
              /\ RejectCur(q)
              /\ UNCHANGED <<fileVars, rows>>
         ELSE IF staging[m.file_name] # 0 /\ ok
           THEN /\ hpc' = [hpc EXCEPT ![q] = "check"]
                /\ UNCHANGED <<fileVars, queue, settle, raised, cur, rows>>
           ELSE \* the collaborator (or os.path.getsize) raises: except branch
                /\ MoveToUnprocessed(m.file_name)
                /\ RejectCur(q)
                /\ UNCHANGED <<processed, nextFile, rows>>
  /\ UNCHANGED <<nextMsg, purgeVars, directVars, zipVars, poolVars, pqVars, saveFailed>>
  /\ UNCHANGED chanVars

\* a handler that acknowledges as soon as the text is extracted, before the
\* content is saved and the file moved
SaveCheckAcking(q) ==
  /\ hpc[q] = "check"
  /\ AckCur(q)
  /\ UNCHANGED <<fileVars, nextMsg, rows, purgeVars, directVars, zipVars, poolVars, pqVars, saveFailed>>
  /\ UNCHANGED chanVars

\* a handler that moves the file into processed/ before it saves the content
SaveCheckMoving(q) ==
  /\ hpc[q] = "check"
  /\ hpc' = [hpc EXCEPT ![q] =
        IF Existing(ContentKey(q, cur[q].file_name)) THEN "skip" ELSE "insert"]
  /\ processed' = [processed EXCEPT ![cur[q].file_name] = staging[cur[q].file_name]]
  /\ staging' = [staging EXCEPT ![cur[q].file_name] = 0]
  /\ UNCHANGED <<unprocessed, nextFile, brokerVars, rows, purgeVars, directVars, zipVars,
                 poolVars, pqVars, saveFailed>>
  /\ UNCHANGED chanVars

\* save_processed_content: the SELECT and the early return when a row exists
\* ("skip": returned without inserting; the handler goes on to the move)
SaveCheck(q) ==
  /\ hpc[q] = "check"
  /\ hpc' = [hpc EXCEPT ![q] =
        IF Existing(ContentKey(q, cur[q].file_name)) THEN "skip" ELSE "insert"]
  /\ UNCHANGED <<fileVars, brokerVars, rows, purgeVars, directVars, zipVars, poolVars, pqVars, saveFailed>>
  /\ UNCHANGED chanVars

\* save_processed_content: the INSERT and commit.  dbOk = FALSE: the storage
\* layer raises; the exception passes through save_processed_content to
\* process_*, whose except branch moves the file to unprocessed/ and re-raises.
SaveInsert(q, dbOk) ==
  /\ hpc[q] = "insert"
  /\ IF dbOk
       THEN /\ rows' = InsertRow(ContentKey(q, cur[q].file_name))
            /\ hpc' = [hpc EXCEPT ![q] = "move"]
            /\ UNCHANGED <<fileVars, queue, settle, raised, cur, saveFailed>>
       ELSE /\ MoveToUnprocessed(cur[q].file_name)
            /\ RejectCur(q)
            /\ saveFailed' = saveFailed \cup {cur[q].id}
            /\ UNCHANGED <<processed, nextFile, rows>>
  /\ UNCHANGED <<nextMsg, purgeVars, directVars, zipVars, poolVars, pqVars>>
  /\ UNCHANGED chanVars

\* MoveAck with the file copied instead of renamed: the source stays in staging
MoveAckCopy(q) ==
  /\ hpc[q] \in {"move", "skip"}
  /\ processed' = [processed EXCEPT ![cur[q].file_name] = staging[cur[q].file_name]]
  /\ AckCur(q)
  /\ UNCHANGED <<staging, unprocessed, nextFile>>
  /\ UNCHANGED <<nextMsg, rows, purgeVars, directVars, zipVars, poolVars, pqVars, saveFailed>>
  /\ UNCHANGED chanVars

\* os.rename(file_path, processed/<file_name>), then the exit of
\* message.process() acknowledges.  If the source is gone the rename raises,
\* the except branch finds nothing to move and the message is rejected.
MoveAck(q) ==
  /\ hpc[q] \in {"move", "skip"}
  /\ LET n == cur[q].file_name IN
       IF staging[n] # 0
         THEN /\ processed' = [processed EXCEPT ![n] = staging[n]]
              /\ staging' = [staging EXCEPT ![n] = 0]
              /\ AckCur(q)
              /\ UNCHANGED <<unprocessed, nextFile>>
         ELSE /\ RejectCur(q)
              /\ UNCHANGED fileVars
  /\ UNCHANGED <<nextMsg, rows, purgeVars, directVars, zipVars, poolVars, pqVars, saveFailed>>
  /\ UNCHANGED chanVars

\* os.rename(file_path, processed/<file_name>) raises although the source
\* exists (processed/ lacks the sub-directory of the name, is not writable,
\* or holds a directory of that name): the row is already committed; the
\* except branch renames the file into unprocessed/ and re-raises, and the
\* message is rejected.  unOk: whether that second rename succeeds; when it
\* raises too, the file stays in staging.
MoveRaises(q, unOk) ==
  /\ hpc[q] \in {"move", "skip"}
  /\ staging[cur[q].file_name] # 0
  /\ IF unOk THEN MoveToUnprocessed(cur[q].file_name)
             ELSE LeaveInStaging(cur[q].file_name)
  /\ RejectCur(q)
  /\ UNCHANGED <<processed, nextFile>>
  /\ UNCHANGED <<nextMsg, rows, purgeVars, directVars, zipVars, poolVars, pqVars, saveFailed>>
  /\ UNCHANGED chanVars

\* ------------------------------------------------------------ orchestrator
\* an enqueue_task that publishes every task to document_processing
EnqueueDocument(t, n, pubOk) ==
  IF pubOk /\ channel = "open"
    THEN /\ queue' = Publish(queue, "document_processing", TaskMsg(nextMsg, n))
         /\ duringPurge' = IF purgePc # 0 THEN duringPurge \cup {nextMsg} ELSE duringPurge
         /\ nextMsg' = nextMsg + 1
    ELSE UNCHANGED <<queue, nextMsg, duringPurge>>

\* QueueManager.enqueue_task as seen by its caller: the message is published
\* to {queue_type}_processing, or the publish raises and nothing is added.
\* (The check_queue_status call that follows is a passive declare of a
\* queue that exists.)  On a closed channel the publish raises.
Enqueue(t, n, pubOk) ==
  IF pubOk /\ channel = "open"
    THEN /\ queue' = Publish(queue, QueueName(t), TaskMsg(nextMsg, n))
         /\ duringPurge' = IF purgePc # 0 THEN duringPurge \cup {nextMsg} ELSE duringPurge
         /\ nextMsg' = nextMsg + 1
    ELSE UNCHANGED <<queue, nextMsg, duringPurge>>

\* POST /process-file: the upload is written to the staging directory; an
\* unsupported file is moved to unprocessed/, a supported one is enqueued.
\* When enqueue_task raises the endpoint answers 500 and the file stays.
process_file(n, pubOk) ==
  /\ nextFile <= MaxFiles
  /\ nextMsg <= MaxMsgs
  /\ nextFile' = nextFile + 1
  /\ IF get_file_type(n) = None
       THEN /\ unprocessed' = [unprocessed EXCEPT ![n] = nextFile]
            /\ staging' = [staging EXCEPT ![n] = 0]
            /\ UNCHANGED <<queue, nextMsg, duringPurge>>
       ELSE /\ staging' = [staging EXCEPT ![n] = nextFile]
            /\ Enqueue(get_file_type(n), n, pubOk)
            /\ UNCHANGED unprocessed
  /\ UNCHANGED <<processed, cur, settle, raised, hpc, rows, purgePc, directVars,
                 zipVars, poolVars, pqVars, saveFailed>>
  /\ UNCHANGED chanVars

\* archives: the name lists zip_ref.namelist() can return
Archives ==
  UNION {[1..k -> Names] : k \in 1..MaxZipLen}

\* name lists of archives that also hold directory entries, entries inside
\* sub-directories and upper-case extensions, each name once
ZipArchives ==
  {a \in UNION {[1..k -> EntryNames] : k \in 1..MaxZipLen} :
     \A i, j \in DOMAIN a : i # j => a[i] # a[j]}

NoStats ==
  [total_files |-> 0, processed_files |-> 0, failed_files |-> 0,
   saved_to_db |-> 0, errors |-> << >>]

\* ProcessingStats.add_error: appends the entry and counts a failure
add_error(st, n) ==
  [st EXCEPT !.errors = Append(@, n), !.failed_files = @ + 1]

\* process_zip up to the loop: a fresh accumulator, total_files = number of
\* entries get_file_type classifies
zip_begin(archive) ==
  /\ zipPc = "idle"
  /\ Len(archive) <= MaxFiles + 1 - nextFile
  /\ Len(archive) <= MaxMsgs + 1 - nextMsg
  /\ zipLeft' = archive
  /\ all_files' = archive
  /\ zipCalls' = << >>
  /\ zipPc' = "loop"
  /\ stats' = [NoStats EXCEPT !.total_files =
                 Cardinality({i \in DOMAIN archive : get_file_type(archive[i]) # None})]
  /\ UNCHANGED <<fileVars, brokerVars, hpc, rows, purgeVars, directVars, log, poolVars, pqVars, saveFailed>>
  /\ UNCHANGED chanVars

\* one iteration of the loop over all_files: the entry is extracted to the
\* staging directory; a classified entry is enqueued, any other is moved to
\* unprocessed/ and recorded; an exception (enqueue_task raising, or the
\* first shutil.move raising) reaches the except clause, which moves the
\* extracted file to unprocessed/ and records it, and the loop goes on.
\* mvOk: whether the last shutil.move attempted for the entry succeeds; when
\* it raises inside the except clause (e.g. the entry lies in a sub-directory
\* that unprocessed/ does not have) the exception leaves the loop,
\* process_zip answers 500 and save_log is not reached.
\* A directory entry is extracted as a directory: get_file_type gives None
\* for its empty suffix, is_file() is false, nothing is moved and the entry
\* is recorded as a failure.
zip_entry(pubOk, mvOk) ==
  /\ zipPc = "loop"
  /\ zipLeft # << >>
  /\ nextFile <= MaxFiles
  /\ nextMsg <= MaxMsgs
  /\ LET n == Head(zipLeft) IN
       IF n \in DirectoryEntries
       THEN /\ stats' = add_error([stats EXCEPT !.failed_files = @ + 1], n)
            /\ zipLeft' = Tail(zipLeft)
            /\ UNCHANGED <<staging, unprocessed, nextFile, queue, nextMsg, duringPurge, zipPc>>
       ELSE
       /\ nextFile' = nextFile + 1
       /\ IF get_file_type(n) # None /\ pubOk
            THEN /\ staging' = [staging EXCEPT ![n] = nextFile]
                 /\ Enqueue(get_file_type(n), n, TRUE)
                 /\ stats' = [stats EXCEPT !.processed_files = @ + 1]
                 /\ zipLeft' = Tail(zipLeft)
                 /\ UNCHANGED <<unprocessed, zipPc>>
            ELSE IF mvOk
              THEN /\ unprocessed' = [unprocessed EXCEPT ![n] = nextFile]
                   /\ staging' = [staging EXCEPT ![n] = 0]
                   /\ stats' = add_error([stats EXCEPT !.failed_files = @ + 1], n)
                   /\ zipLeft' = Tail(zipLeft)
                   /\ UNCHANGED <<queue, nextMsg, duringPurge, zipPc>>
              ELSE /\ staging' = [staging EXCEPT ![n] = nextFile]
                   /\ zipLeft' = << >>
                   /\ zipPc' = "idle"
                   /\ UNCHANGED <<unprocessed, stats, queue, nextMsg, duringPurge>>
  /\ UNCHANGED <<processed, cur, settle, raised, hpc, rows, purgePc, directVars,
                 log, all_files, zipCalls, poolVars, pqVars, saveFailed>>
  /\ UNCHANGED chanVars

\* process_zip that waits for the consumers before it returns and reports
\* what they extracted
zip_finish_extracted ==
  /\ zipPc = "loop"
  /\ zipLeft = << >>
  /\ \A q \in PrimaryQueues : cur[q] = NoMsg /\ queue[q] = << >>
  /\ log' = [stats EXCEPT !.processed_files = Len(rows), !.saved_to_db = Len(rows)]
  /\ zipCalls' = Append(zipCalls, "save_log")
  /\ zipPc' = "idle"
  /\ UNCHANGED <<fileVars, brokerVars, hpc, rows, purgeVars, directVars, zipLeft,
                 stats, all_files, poolVars, pqVars, saveFailed>>
  /\ UNCHANGED chanVars

\* after the loop: stats.save_log writes the batch log, and process_zip
\* returns the statistics; it makes no other call
zip_finish ==
  /\ zipPc = "loop"
  /\ zipLeft = << >>
  /\ log' = stats
  /\ zipCalls' = Append(zipCalls, "save_log")
  /\ zipPc' = "idle"
  /\ UNCHANGED <<fileVars, brokerVars, hpc, rows, purgeVars, directVars, zipLeft,
                 stats, all_files, poolVars, pqVars, saveFailed>>
  /\ UNCHANGED chanVars

\* ------------------------------------------------------------ purge_queues
\* POST /purge-queues (and QueueManager.initialize): the call starts
purge_begin ==
  /\ purgePc = 0
  /\ purgePc' = 1
  /\ duringPurge' = {}
  /\ UNCHANGED <<fileVars, brokerVars, hpc, rows, directVars, zipVars, poolVars, pqVars, saveFailed>>
  /\ UNCHANGED chanVars

\* one awaited queue.purge(): the ready messages of the next queue in
\* PurgeOrder are dropped; after the last one purge_queues returns
purge_step ==
  /\ purgePc # 0
  /\ queue' = [queue EXCEPT ![PurgeOrder[purgePc]] = << >>]
  /\ purgePc' = IF purgePc = Len(PurgeOrder) THEN 0 ELSE purgePc + 1
  /\ UNCHANGED <<fileVars, nextMsg, cur, settle, raised, hpc, rows, duringPurge,
                 directVars, zipVars, poolVars, pqVars, saveFailed>>
  /\ UNCHANGED chanVars

\* ------------------------------------------------------------ other publishers
\* Any client of the broker may publish to a task queue: a body the handlers
\* cannot decode, or JSON without the fields they read.
publish_foreign(q, kind) ==
  /\ nextMsg <= MaxMsgs
  /\ queue' = Publish(queue, q, [id |-> nextMsg, kind |-> kind, file_name |-> NoName,
                                  body |-> << >>, delivery_mode |-> "TRANSIENT"])
  /\ duringPurge' = IF purgePc # 0 THEN duringPurge \cup {nextMsg} ELSE duringPurge
  /\ nextMsg' = nextMsg + 1
  /\ UNCHANGED <<fileVars, cur, settle, raised, hpc, rows, purgePc, directVars,
                 zipVars, poolVars, pqVars, saveFailed>>
  /\ UNCHANGED chanVars

\* ------------------------------------------------------------ process_queue
\* QueueManager.process_queue registers its consumer with queue.consume and
\* never calls set_qos: the broker pushes every ready message of q to the
\* consumer, and each delivery starts its own process_message task.
pq_deliver(q) ==
  /\ queue[q] # << >>
  /\ inflight' = [inflight EXCEPT ![q] = @ \cup {Head(queue[q])}]
  /\ queue' = [queue EXCEPT ![q] = Tail(@)]
  /\ UNCHANGED <<fileVars, nextMsg, cur, settle, raised, hpc, rows, purgeVars,
                 directVars, zipVars, poolVars, saveFailed>>
  /\ UNCHANGED chanVars

\* process_message of process_queue for a delivered message m: a body that
\* is not JSON is acknowledged (JSONDecodeError branch); decoded data without
\* the key 'filename' is acknowledged as invalid, which is the case of every
\* task enqueue_task publishes (its key is 'file_name').
process_message(q, m) ==
  /\ m \in inflight[q]
  /\ inflight' = [inflight EXCEPT ![q] = @ \ {m}]
  /\ settle' = [settle EXCEPT ![m.id] = Append(@, "ack")]
  /\ UNCHANGED <<fileVars, queue, nextMsg, cur, raised, hpc, rows, purgeVars,
                 directVars, zipVars, poolVars, saveFailed>>
  /\ UNCHANGED chanVars

\* ------------------------------------------------------------ direct variant
\* AudioProcessor.__init__ (utils/audio_processor.py) and DocumentProcessor
DirectAudioExt == {"wav", "mp3", "ogg", "m4a"}
DirectVideoExt == {"mp4", "avi", "mkv", "mov"}

\* the content_data AudioProcessor._transcribe_audio returns for file n;
\* a video is first converted to <stem>_audio.wav
DirectKey(n) ==
  IF n.ext \in DirectVideoExt
    THEN [file_name |-> [stem |-> n.stem \o "_audio", ext |-> "wav"],
          file_type |-> "wav", content_type |-> "audio", content |-> Text]
    ELSE [file_name |-> n, file_type |-> n.ext, content_type |-> "audio",
          content |-> Text]

\* DocumentProcessor.__init__: the keys of supported_extensions
DirectDocumentExt == {"txt", "pdf", "xlsx", "xls", "vcf"}

\* files given to the direct variant: also extensions on which its tables
\* and those of get_file_type differ
DirectNames ==
  Names \cup { [stem |-> "e", ext |-> "mkv"], [stem |-> "f", ext |-> "opus"] }

\* ProcessingManager._process_single_file with AudioProcessor.process_media:
\* the media type of the routine the file is sent to, None when the
\* extension is in no table ("Formato não suportado")
process_single_file(n) ==
  LET extension == Lower(n.ext) IN
  IF extension \in DirectVideoExt THEN "video"
  ELSE IF extension \in DirectAudioExt THEN "audio"
  ELSE IF extension \in DirectDocumentExt THEN "document"
  ELSE None

\* the files whose iteration reaches save_processed_content
DirectMedia == {n \in DirectNames : process_single_file(n) \in {"audio", "video"}}

\* ProcessingManager.process_files, one loop iteration up to the save:
\* _process_single_file sends audio and video to process_media, whose result
\* is saved unless it holds 'error'.  Every other file counts as failed
\* (a document ends in the AttributeError of the missing process_document).
direct_begin(d, n, ok) ==
  /\ dpc[d] = "idle"
  /\ dfile' = [dfile EXCEPT ![d] = n]
  /\ IF n \in DirectMedia /\ ok
       THEN /\ dpc' = [dpc EXCEPT ![d] = "check"]
            /\ dkey' = [dkey EXCEPT ![d] = DirectKey(n)]
       ELSE /\ dpc' = [dpc EXCEPT ![d] = "failed"]
            /\ UNCHANGED dkey
  /\ UNCHANGED <<fileVars, brokerVars, hpc, rows, purgeVars, zipVars, poolVars, pqVars, saveFailed>>
  /\ UNCHANGED chanVars

\* process_files counts the failure (total_failed += 1) and takes the next file
direct_failed(d) ==
  /\ dpc[d] = "failed"
  /\ dpc' = [dpc EXCEPT ![d] = "idle"]
  /\ dfile' = [dfile EXCEPT ![d] = NoName]
  /\ UNCHANGED <<fileVars, brokerVars, hpc, rows, dkey, purgeVars, zipVars, poolVars, pqVars, saveFailed>>
  /\ UNCHANGED chanVars

\* save_processed_content called by the direct variant: SELECT
direct_check(d) ==
  /\ dpc[d] = "check"
  /\ IF Existing(dkey[d])
       THEN /\ dpc' = [dpc EXCEPT ![d] = "idle"]
            /\ dkey' = [dkey EXCEPT ![d] = NoKey]
            /\ dfile' = [dfile EXCEPT ![d] = NoName]
       ELSE /\ dpc' = [dpc EXCEPT ![d] = "insert"]
            /\ UNCHANGED <<dkey, dfile>>
  /\ UNCHANGED <<fileVars, brokerVars, hpc, rows, purgeVars, zipVars, poolVars, pqVars, saveFailed>>
  /\ UNCHANGED chanVars

\* save_processed_content called by the direct variant: INSERT and commit
\* (a storage error is caught and logged by process_files)
direct_insert(d, dbOk) ==
  /\ dpc[d] = "insert"
  /\ rows' = IF dbOk THEN InsertRow(dkey[d]) ELSE rows
  /\ dpc' = [dpc EXCEPT ![d] = "idle"]
  /\ dkey' = [dkey EXCEPT ![d] = NoKey]
  /\ dfile' = [dfile EXCEPT ![d] = NoName]
  /\ UNCHANGED <<fileVars, brokerVars, hpc, purgeVars, zipVars, poolVars, pqVars, saveFailed>>
  /\ UNCHANGED chanVars

\* ------------------------------------------------------------ channel
\* What the broker does when the channel is closed: the consumers registered
\* on it are gone and its unacknowledged deliveries go back to their queues.
\* The handlers already running keep running.
RequeueUnacked(qs) ==
  [x \in Queues |->
     IF x \in PrimaryQueues /\ cur[x] # NoMsg
       THEN << cur[x] >> \o qs[x] ELSE qs[x]]

\* a shutdown that settles the unacknowledged deliveries with reject
shutdown_event_rejecting ==
  /\ channel = "open"
  /\ channel' = "closed"
  /\ consumers' = {}
  /\ settle' = [i \in MsgIds |->
        IF \E x \in PrimaryQueues : cur[x].id = i THEN Append(settle[i], "reject")
        ELSE settle[i]]
  /\ UNCHANGED <<fileVars, queue, nextMsg, cur, raised, hpc, rows, purgeVars, directVars,
                 zipVars, poolVars, pqVars, saveFailed, qstatus>>

\* shutdown_event: no processor task exists to cancel; QueueManager.close()
\* closes the channel and the connection.  (mcp_server.close() and
\* db_manager.close() follow; the latter is close / close_primary.)
shutdown_event ==
  /\ channel = "open"
  /\ channel' = "closed"
  /\ consumers' = {}
  /\ queue' = RequeueUnacked(queue)
  /\ UNCHANGED <<fileVars, nextMsg, cur, settle, raised, hpc, rows, purgeVars, directVars,
                 zipVars, poolVars, pqVars, saveFailed, qstatus>>

\* names check_queue_status is called with: the declared queues and a name
\* no queue has
StatusNames == Queues \cup {"text_processing"}

\* check_queue_status(queue_name): a passive declare on the shared channel.
\* ok: whether the request reaches the broker and its reply comes back.
\* For a declared queue the reply carries the two counts.  For a name no
\* queue has, the broker answers 404 NOT_FOUND, a channel exception: it
\* closes the channel.  Every exception is caught and (0, 0) returned.
check_queue_status(name, ok) ==
  /\ qstatus = NoStatus
  /\ IF channel = "open" /\ ok /\ name \in Queues
       THEN /\ qstatus' = << Len(queue[name]), IF name \in consumers THEN 1 ELSE 0 >>
            /\ UNCHANGED <<queue, channel, consumers>>
       ELSE IF channel = "open" /\ ok
         THEN /\ qstatus' = << 0, 0 >>
              /\ channel' = "closed"
              /\ consumers' = {}
              /\ queue' = RequeueUnacked(queue)
         ELSE /\ qstatus' = << 0, 0 >>
              /\ UNCHANGED <<queue, channel, consumers>>
  /\ UNCHANGED <<fileVars, nextMsg, cur, settle, raised, hpc, rows, purgeVars, directVars,
                 zipVars, poolVars, pqVars, saveFailed>>

\* the caller has taken the result
status_returned ==
  /\ qstatus # NoStatus
  /\ qstatus' = NoStatus
  /\ UNCHANGED <<fileVars, brokerVars, hpc, rows, purgeVars, directVars, zipVars, poolVars,
                 pqVars, saveFailed, channel, consumers>>

\* ------------------------------------------------------------ DatabaseManager pool
pool_size == 5

\* the value of lock while no task holds _pool_lock
Free == "free"

\* every task that enters "async with get_connection()"
Borrowers == Callers \cup {"t3", "t4", "t5", "t6"}

\* how a caller's scope can end
ExitKinds == {"return", "exception", "cancel"}

\* get_connection may still open a connection: at most MaxConns are opened
\* by callers, beside those initialize() opens
MayOpen == nextConn <= inits * (pool_size + 1) + MaxConns

\* n fresh connection ids starting at c
Fresh(c, n) == [i \in 1..n |-> c + i - 1]

\* release_connection applied to pool list p, always appending
ReleasedUnbounded(p, c) == Append(p, c)

\* release_connection applied to pool list p: the list afterwards
Released(p, c) == IF Len(p) < pool_size THEN Append(p, c) ELSE p

\* release_connection applied to pool list p: the connections it closes
ReleaseCloses(p, c) == IF Len(p) < pool_size THEN {} ELSE {c}

\* initialize(): opens the primary connection, runs create_tables inside a
\* get_connection() scope (which takes a pooled connection or opens one and
\* releases it on exit), then _setup_connection_pool appends pool_size
\* new connections.  Both take _pool_lock.
initialize ==
  /\ inits < MaxInits
  /\ lock = Free
  /\ inits' = inits + 1
  /\ conn' = "open"
  /\ LET c == IF pool # << >> THEN pool[Len(pool)] ELSE nextConn
         p0 == IF pool # << >> THEN SubSeq(pool, 1, Len(pool) - 1) ELSE pool
         n0 == IF pool # << >> THEN nextConn ELSE nextConn + 1
     IN /\ pool' = Released(p0, c) \o Fresh(n0, pool_size)
        /\ closedConns' = closedConns \cup ReleaseCloses(p0, c)
        /\ nextConn' = n0 + pool_size
  /\ UNCHANGED <<fileVars, brokerVars, hpc, rows, purgeVars, directVars, zipVars,
                 leased, lock, cpc, exitHow, closing, pqVars, saveFailed>>
  /\ UNCHANGED chanVars

\* get_connection with a lease limit: an empty pool makes the caller wait
\* until fewer than pool_size connections are leased
get_connection_bounded(t) ==
  /\ cpc[t] = "out"
  /\ lock = Free
  /\ IF pool # << >>
       THEN /\ leased' = [leased EXCEPT ![t] = pool[Len(pool)]]
            /\ pool' = SubSeq(pool, 1, Len(pool) - 1)
            /\ cpc' = [cpc EXCEPT ![t] = "body"]
            /\ UNCHANGED lock
       ELSE /\ MayOpen
            /\ Cardinality({u \in Borrowers : leased[u] # 0}) < pool_size
            /\ lock' = t
            /\ cpc' = [cpc EXCEPT ![t] = "opening"]
            /\ UNCHANGED <<pool, leased>>
  /\ UNCHANGED <<fileVars, brokerVars, hpc, rows, purgeVars, directVars, zipVars,
                 conn, closedConns, nextConn, inits, exitHow, closing, pqVars, saveFailed>>
  /\ UNCHANGED chanVars

\* get_connection handing out the last pooled connection without removing it
get_connection_peek(t) ==
  /\ cpc[t] = "out"
  /\ lock = Free
  /\ IF pool # << >>
       THEN /\ leased' = [leased EXCEPT ![t] = pool[Len(pool)]]
            /\ cpc' = [cpc EXCEPT ![t] = "body"]
            /\ UNCHANGED <<pool, lock>>
       ELSE /\ MayOpen
            /\ lock' = t
            /\ cpc' = [cpc EXCEPT ![t] = "opening"]
            /\ UNCHANGED <<pool, leased>>
  /\ UNCHANGED <<fileVars, brokerVars, hpc, rows, purgeVars, directVars, zipVars,
                 conn, closedConns, nextConn, inits, exitHow, closing, pqVars, saveFailed>>
  /\ UNCHANGED chanVars

\* entering "async with get_connection()": with _pool_lock held, pop from the
\* pool, or start opening a connection when the pool is empty
get_connection(t) ==
  /\ cpc[t] = "out"
  /\ lock = Free
  /\ IF pool # << >>
       THEN /\ leased' = [leased EXCEPT ![t] = pool[Len(pool)]]
            /\ pool' = SubSeq(pool, 1, Len(pool) - 1)
            /\ cpc' = [cpc EXCEPT ![t] = "body"]
            /\ UNCHANGED lock
       ELSE /\ MayOpen
            /\ lock' = t
            /\ cpc' = [cpc EXCEPT ![t] = "opening"]
            /\ UNCHANGED <<pool, leased>>
  /\ UNCHANGED <<fileVars, brokerVars, hpc, rows, purgeVars, directVars, zipVars,
                 conn, closedConns, nextConn, inits, exitHow, closing, pqVars, saveFailed>>
  /\ UNCHANGED chanVars

\* aiosqlite.connect returns inside get_connection: the lock is released and
\* the new connection is yielded to the caller
get_connection_opened(t) ==
  /\ cpc[t] = "opening"
  /\ leased' = [leased EXCEPT ![t] = nextConn]
  /\ nextConn' = nextConn + 1
  /\ lock' = Free
  /\ cpc' = [cpc EXCEPT ![t] = "body"]
  /\ UNCHANGED <<fileVars, brokerVars, hpc, rows, purgeVars, directVars, zipVars,
                 conn, pool, closedConns, inits, exitHow, closing, pqVars, saveFailed>>
  /\ UNCHANGED chanVars

\* the caller's scope ends (how: normal return, exception, cancellation):
\* control reaches the finally clause of get_connection
exit_scope_leak(t, how) ==
  /\ cpc[t] = "body"
  /\ cpc' = [cpc EXCEPT ![t] = IF how = "cancel" THEN "out" ELSE "release"]
  /\ leased' = [leased EXCEPT ![t] = IF how = "cancel" THEN 0 ELSE @]
  /\ exitHow' = [exitHow EXCEPT ![t] = IF how = "cancel" THEN "none" ELSE how]
  /\ UNCHANGED <<fileVars, brokerVars, hpc, rows, purgeVars, directVars, zipVars,
                 conn, pool, closedConns, nextConn, inits, lock, closing, pqVars, saveFailed>>
  /\ UNCHANGED chanVars

exit_scope(t, how) ==
  /\ cpc[t] = "body"
  /\ cpc' = [cpc EXCEPT ![t] = "release"]
  /\ exitHow' = [exitHow EXCEPT ![t] = how]
  /\ UNCHANGED <<fileVars, brokerVars, hpc, rows, purgeVars, directVars, zipVars,
                 conn, pool, leased, closedConns, nextConn, inits, lock, closing, pqVars, saveFailed>>
  /\ UNCHANGED chanVars

\* release_connection: with _pool_lock held, append the connection when the
\* pool holds fewer than pool_size, else start closing it
release_connection(t) ==
  /\ cpc[t] = "release"
  /\ lock = Free
  /\ pool' = Released(pool, leased[t])
  /\ IF ReleaseCloses(pool, leased[t]) = {}
       THEN /\ leased' = [leased EXCEPT ![t] = 0]
            /\ cpc' = [cpc EXCEPT ![t] = "out"]
            /\ exitHow' = [exitHow EXCEPT ![t] = "none"]
            /\ UNCHANGED lock
       ELSE /\ lock' = t
            /\ cpc' = [cpc EXCEPT ![t] = "closing"]
            /\ UNCHANGED <<leased, exitHow>>
  /\ UNCHANGED <<fileVars, brokerVars, hpc, rows, purgeVars, directVars, zipVars,
                 conn, closedConns, nextConn, inits, closing, pqVars, saveFailed>>
  /\ UNCHANGED chanVars

\* conn.close() returns inside release_connection: the lock is released
release_connection_closed(t) ==
  /\ cpc[t] = "closing"
  /\ closedConns' = closedConns \cup {leased[t]}
  /\ leased' = [leased EXCEPT ![t] = 0]
  /\ lock' = Free
  /\ cpc' = [cpc EXCEPT ![t] = "out"]
  /\ exitHow' = [exitHow EXCEPT ![t] = "none"]
  /\ UNCHANGED <<fileVars, brokerVars, hpc, rows, purgeVars, directVars, zipVars,
                 conn, pool, nextConn, inits, closing, pqVars, saveFailed>>
  /\ UNCHANGED chanVars

\* close(), first part: with _pool_lock held, closes every pooled connection
\* and clears the list, then leaves the lock
close ==
  /\ conn = "open"
  /\ ~closing
  /\ lock = Free
  /\ closedConns' = closedConns \cup {pool[i] : i \in DOMAIN pool}
  /\ pool' = << >>
  /\ closing' = TRUE
  /\ UNCHANGED <<fileVars, brokerVars, hpc, rows, purgeVars, directVars, zipVars,
                 conn, leased, nextConn, inits, lock, cpc, exitHow, pqVars, saveFailed>>
  /\ UNCHANGED chanVars

\* close(), second part: await self.conn.close() on the primary connection,
\* after which close() returns; other tasks run between the two parts
close_primary ==
  /\ closing
  /\ conn' = "closed"
  /\ closing' = FALSE
  /\ UNCHANGED <<fileVars, brokerVars, hpc, rows, purgeVars, directVars, zipVars,
                 pool, leased, closedConns, nextConn, inits, lock, cpc, exitHow,
                 pqVars, saveFailed>>
  /\ UNCHANGED chanVars

\* ------------------------------------------------------------ specifications
\* The state after construction and startup_event: directories created and
\* empty of uploads, queues declared and purged, the four consumers
\* registered and idle, an empty table, and a DatabaseManager just constructed.
Init ==
  /\ staging = [n \in FileNames |-> 0]
  /\ processed = [n \in FileNames |-> 0]
  /\ unprocessed = [n \in FileNames |-> 0]
  /\ nextFile = 1
  /\ queue = [q \in Queues |-> << >>]
  /\ nextMsg = 1
  /\ cur = [q \in PrimaryQueues |-> NoMsg]
  /\ hpc = [q \in PrimaryQueues |-> "idle"]
  /\ rows = << >>
  /\ settle = [i \in MsgIds |-> << >>]
  /\ raised = {}
  /\ purgePc = 0
  /\ duringPurge = {}
  /\ dpc = [d \in DirectTasks |-> "idle"]
  /\ dkey = [d \in DirectTasks |-> NoKey]
  /\ dfile = [d \in DirectTasks |-> NoName]
  /\ zipLeft = << >>
  /\ zipPc = "idle"
  /\ stats = NoStats
  /\ log = NoStats
  /\ all_files = << >>
  /\ zipCalls = << >>
  /\ conn = "none"
  /\ closing = FALSE
  /\ pool = << >>
  /\ leased = [t \in Borrowers |-> 0]
  /\ closedConns = {}
  /\ nextConn = 1
  /\ inits = 0
  /\ lock = Free
  /\ cpc = [t \in Borrowers |-> "out"]
  /\ exitHow = [t \in Borrowers |-> "none"]
  /\ inflight = [q \in PrimaryQueues |-> {}]
  /\ saveFailed = {}
  /\ channel = "open"
  /\ consumers = PrimaryQueues
  /\ qstatus = NoStatus

\* the consumer of q: a delivery, or the next step of its handler
ConsumerOf(q) ==
  \/ Deliver(q)
  \/ \E ok \in BOOLEAN : Extract(q, ok)
  \/ SaveCheck(q)
  \/ \E dbOk \in BOOLEAN : SaveInsert(q, dbOk)
  \/ MoveAck(q)

Consumer == \E q \in PrimaryQueues : ConsumerOf(q)

\* the asynchronous pipeline: uploads, archives, other publishers, consumers
Next ==
  \/ \E n \in Names, pubOk \in BOOLEAN : process_file(n, pubOk)
  \/ \E a \in Archives : zip_begin(a)
  \/ \E pubOk, mvOk \in BOOLEAN : zip_entry(pubOk, mvOk)
  \/ zip_finish
  \/ \E q \in PrimaryQueues, k \in MalformedKinds : publish_foreign(q, k)
  \/ Consumer

Spec == Init /\ [][Next]_vars

\* the pipeline with purge_queues running beside uploads and consumers,
\* the broker accepting every publish (the handlers treat every body they
\* cannot use alike, so one kind of foreign body is published here)
NextPurge ==
  \/ \E n \in Names : process_file(n, TRUE)
  \/ \E q \in PrimaryQueues : publish_foreign(q, "garbage")
  \/ purge_begin
  \/ purge_step
  \/ Consumer

SpecPurge == Init /\ [][NextPurge]_vars

\* the writers of processed_content: the consumers and the direct variant
NextSave ==
  \/ \E n \in Names, pubOk \in BOOLEAN : process_file(n, pubOk)
  \/ Consumer
  \/ \E d \in DirectTasks, n \in Names \cap DirectMedia : direct_begin(d, n, TRUE)
  \/ \E d \in DirectTasks : direct_check(d)
  \/ \E d \in DirectTasks, dbOk \in BOOLEAN : direct_insert(d, dbOk)

SpecSave == Init /\ [][NextSave]_vars

\* the direct variant alone: process_files over files of every extension
NextDirect ==
  \/ \E d \in DirectTasks, n \in DirectNames, ok \in BOOLEAN : direct_begin(d, n, ok)
  \/ \E d \in DirectTasks : direct_failed(d)
  \/ \E d \in DirectTasks : direct_check(d)
  \/ \E d \in DirectTasks, dbOk \in BOOLEAN : direct_insert(d, dbOk)

SpecDirect == Init /\ [][NextDirect]_vars

\* the DatabaseManager and the callers of get_connection
NextPool ==
  \/ initialize
  \/ \E t \in Callers : get_connection(t)
  \/ \E t \in Callers : get_connection_opened(t)
  \/ \E t \in Callers, how \in ExitKinds : exit_scope(t, how)
  \/ \E t \in Callers : release_connection(t)
  \/ \E t \in Callers : release_connection_closed(t)
  \/ close
  \/ close_primary

SpecPool == Init /\ [][NextPool]_vars

\* uploads through /process-file and the four registered consumers
NextHandler ==
  \/ \E n \in Names, pubOk \in BOOLEAN : process_file(n, pubOk)
  \/ Consumer

SpecHandler == Init /\ [][NextHandler]_vars

\* the same, every consumer taking its next step whenever it has one: the
\* broker pushes a ready message to an idle consumer, and the event loop
\* runs every handler that can go on
SpecHandlerFair ==
  Init /\ [][NextHandler]_vars /\ \A q \in PrimaryQueues : WF_vars(ConsumerOf(q))

\* uploads, consumers and the shutdown of the application
NextShutdown ==
  \/ \E n \in Names, pubOk \in BOOLEAN : process_file(n, pubOk)
  \/ Consumer
  \/ shutdown_event

SpecShutdown == Init /\ [][NextShutdown]_vars

\* uploads, consumers and callers of check_queue_status
NextStatus ==
  \/ \E n \in Names, pubOk \in BOOLEAN : process_file(n, pubOk)
  \/ Consumer
  \/ \E name \in StatusNames, ok \in BOOLEAN : check_queue_status(name, ok)
  \/ status_returned

SpecStatus == Init /\ [][NextStatus]_vars

\* POST /upload alone: archives of every kind of entry, one after another
NextZip ==
  \/ \E a \in ZipArchives : zip_begin(a)
  \/ \E pubOk, mvOk \in BOOLEAN : zip_entry(pubOk, mvOk)
  \/ zip_finish

SpecZip == Init /\ [][NextZip]_vars

\* POST /upload beside the four registered consumers
NextBatch ==
  \/ \E a \in Archives : zip_begin(a)
  \/ \E pubOk, mvOk \in BOOLEAN : zip_entry(pubOk, mvOk)
  \/ zip_finish
  \/ Consumer

SpecBatch == Init /\ [][NextBatch]_vars

\* uploads and consumers on a file system where a rename into processed/
\* can fail
NextMove ==
  \/ \E n \in Names, pubOk \in BOOLEAN : process_file(n, pubOk)
  \/ Consumer
  \/ \E q \in PrimaryQueues, unOk \in BOOLEAN : MoveRaises(q, unOk)

SpecMove == Init /\ [][NextMove]_vars

\* the orchestrator alone: POST /process-file and POST /upload, the tasks
\* they publish staying on the queues
NextOrchestrator ==
  \/ \E n \in Names, pubOk \in BOOLEAN : process_file(n, pubOk)
  \/ \E a \in ZipArchives : zip_begin(a)
  \/ \E pubOk, mvOk \in BOOLEAN : zip_entry(pubOk, mvOk)
  \/ zip_finish

SpecOrchestrator == Init /\ [][NextOrchestrator]_vars

\* uploads of documents of every classified kind, and the consumers
NextDocx ==
  \/ \E n \in Names \cup DocxNames, pubOk \in BOOLEAN : process_file(n, pubOk)
  \/ Consumer

SpecDocx == Init /\ [][NextDocx]_vars

\* the broker and a QueueManager whose consumers were registered through
\* process_queue (start_queue_processors)
NextProcessQueue ==
  \/ \E n \in Names, pubOk \in BOOLEAN : process_file(n, pubOk)
  \/ \E q \in PrimaryQueues, k \in MalformedKinds : publish_foreign(q, k)
  \/ \E q \in PrimaryQueues : pq_deliver(q)
  \/ \E q \in PrimaryQueues : \E m \in inflight[q] : process_message(q, m)

SpecProcessQueue == Init /\ [][NextProcessQueue]_vars

\* many concurrent get_connection scopes on a DatabaseManager whose pool is
\* empty: every borrower may enter; the scopes of Callers end within the run,
\* the scopes of the other borrowers outlast it.  (With two scopes ending the
\* pool stays below pool_size, so release_connection always appends.)
NextLease ==
  \/ \E t \in Borrowers : get_connection(t)
  \/ \E t \in Borrowers : get_connection_opened(t)
  \/ \E t \in Callers, how \in ExitKinds : exit_scope(t, how)
  \/ \E t \in Callers : release_connection(t)

SpecLease == Init /\ [][NextLease]_vars

\* Redelivery: the state after the same upload was submitted twice (POST
\* /process-file with the same file, for each name of a set S of supported
\* names): the file is staged once and two identical task messages wait on
\* its queue.  Only the consumers run.
SupportedNames == {n \in Names : get_file_type(n) # None}

\* ids of the two copies of the task for the k-th name
FirstCopy(k) == 2 * k - 1
SecondCopy(k) == 2 * k

NameOrder == CHOOSE f \in [1..Cardinality(SupportedNames) -> SupportedNames] :
               \A i, j \in DOMAIN f : i # j => f[i] # f[j]

InitRedeliver ==
  \E S \in (SUBSET DOMAIN NameOrder) \ {{}} :
    /\ staging = [n \in FileNames |->
         IF \E k \in S : NameOrder[k] = n
           THEN CHOOSE k \in S : NameOrder[k] = n ELSE 0]
    /\ processed = [n \in FileNames |-> 0]
    /\ unprocessed = [n \in FileNames |-> 0]
    /\ nextFile = MaxFiles + 1
    /\ queue = [q \in Queues |->
         IF \E k \in S : QueueName(get_file_type(NameOrder[k])) = q
           THEN LET k == CHOOSE k \in S : QueueName(get_file_type(NameOrder[k])) = q
                IN << TaskMsg(FirstCopy(k), NameOrder[k]),
                      TaskMsg(SecondCopy(k), NameOrder[k]) >>
           ELSE << >>]
    /\ nextMsg = MaxMsgs + 1
    /\ cur = [q \in PrimaryQueues |-> NoMsg]
    /\ hpc = [q \in PrimaryQueues |-> "idle"]
    /\ rows = << >>
    /\ settle = [i \in MsgIds |-> << >>]
    /\ raised = {}
    /\ purgePc = 0
    /\ duringPurge = {}
    /\ dpc = [d \in DirectTasks |-> "idle"]
    /\ dkey = [d \in DirectTasks |-> NoKey]
    /\ dfile = [d \in DirectTasks |-> NoName]
    /\ zipLeft = << >>
    /\ zipPc = "idle"
    /\ stats = NoStats
    /\ log = NoStats
    /\ all_files = << >>
    /\ zipCalls = << >>
    /\ conn = "none"
    /\ closing = FALSE
    /\ pool = << >>
    /\ leased = [t \in Borrowers |-> 0]
    /\ closedConns = {}
    /\ nextConn = 1
    /\ inits = 0
    /\ lock = Free
    /\ cpc = [t \in Borrowers |-> "out"]
    /\ exitHow = [t \in Borrowers |-> "none"]
    /\ inflight = [q \in PrimaryQueues |-> {}]
    /\ saveFailed = {}
    /\ channel = "open"
    /\ consumers = PrimaryQueues
    /\ qstatus = NoStatus

NextRedeliver == Consumer

SpecRedeliver == InitRedeliver /\ [][NextRedeliver]_vars

\* ------------------------------------------------------------ claims
\* rows of processed_content holding the key (file_name, file_type)
RowsWith(n, t) ==
  Cardinality({i \in DOMAIN rows : rows[i].file_name = n /\ rows[i].file_type = t})

\* C1: no two rows of processed_content share the same (file_name, file_type)
\* pair, whatever the interleaving of the save_processed_content calls of the
\* consumers and of the direct variant.
C1_UniqueKey ==
  \A i, j \in DOMAIN rows :
    (rows[i].file_name = rows[j].file_name /\ rows[i].file_type = rows[j].file_type)
      => i = j

\* C2: a message whose handler raises is, at its settlement, in the queue's
\* dead-letter queue exactly once and no longer in the queue it came from.
C2_RaisedOnceInFailed ==
  [][\A q \in PrimaryQueues :
       (cur[q] # NoMsg /\ cur[q].id \in raised' \ raised)
         => /\ Cardinality({i \in DOMAIN queue'[Failed(q)] :
                              queue'[Failed(q)][i].id = cur[q].id}) = 1
            /\ cur[q].id \notin IdsIn(queue'[q])]_vars

\* the k-th name's two copies have both been settled
BothSettled(k) == settle[FirstCopy(k)] # << >> /\ settle[SecondCopy(k)] # << >>

RedeliveredKey(k) ==
  ContentKey(QueueName(get_file_type(NameOrder[k])), NameOrder[k])

RedeliveredRows(k) ==
  RowsWith(RedeliveredKey(k).file_name, RedeliveredKey(k).file_type)

\* the staged file of the k-th name is in exactly one terminal directory and
\* no longer in staging
InOneTerminal(k) ==
  LET n == NameOrder[k] IN
    /\ staging[n] = 0
    /\ (processed[n] # 0) # (unprocessed[n] # 0)

C4_PoolBounded == Len(pool) <= pool_size

\* the handler of q settles its message in this step
Settles(q) == cur[q] # NoMsg /\ cur'[q] = NoMsg

\* C5: a task whose file_path does not exist when the consumer handles it is
\* acknowledged and discarded: no row is inserted, the message is not
\* rejected, nothing is added to the dead-letter queue.
C5_MissingFileAcked ==
  [][\A q \in PrimaryQueues :
       (Settles(q) /\ hpc[q] = "extract" /\ cur[q].kind = "task"
          /\ staging[cur[q].file_name] = 0)
         => /\ settle'[cur[q].id] = << "ack" >>
            /\ rows' = rows
            /\ queue'[Failed(q)] = queue[Failed(q)]]_vars

\* C6: a malformed message (undecodable body, or JSON lacking a required
\* field) is acknowledged and discarded by the handler, never rejected or
\* dead-lettered.
C6_MalformedAcked ==
  [][\A q \in PrimaryQueues :
       (Settles(q) /\ cur[q].kind \in MalformedKinds)
         => /\ settle'[cur[q].id] = << "ack" >>
            /\ queue'[Failed(q)] = queue[Failed(q)]]_vars

\* nothing is queued, in flight or being purged: no step of a consumer or of
\* a purge is enabled, so the directories stay as they are unless a new
\* upload arrives
Quiescent ==
  /\ \A q \in Queues : queue[q] = << >>
  /\ \A q \in PrimaryQueues : cur[q] = NoMsg
  /\ purgePc = 0

\* C7: every staged file ends in processed/ or unprocessed/, whatever uploads,
\* consumer steps, failures and purges occur: once the consumers and the purge
\* have nothing left to do, no file is left in the staging directory.
C7_NoFileLeftStaged ==
  Quiescent => \A n \in Names : staging[n] = 0

\* C8: no file is in processed/ and unprocessed/ at once, and a file that is
\* in one of the two is never moved, overwritten or removed by a later step.
C8_TerminalFinal ==
  [][/\ \A n, m \in Names : processed'[n] # 0 => processed'[n] # unprocessed'[m]
     /\ \A n \in Names :
          /\ processed[n] # 0 => processed'[n] = processed[n]
          /\ unprocessed[n] # 0 => unprocessed'[n] = unprocessed[n]]_vars

\* C9: when a document_processing task is extracted, saved and acknowledged,
\* exactly one row has its file_name with file_type = "document", and the file
\* is in processed/, not in unprocessed/ and not in staging.
C9_DocumentRow ==
  [][LET q == "document_processing" IN
       (Settles(q) /\ settle'[cur[q].id] = << "ack" >>)
         => /\ RowsWith(cur[q].file_name, "document") = 1
            /\ processed'[cur[q].file_name] # 0
            /\ unprocessed'[cur[q].file_name] # processed'[cur[q].file_name]
            /\ staging'[cur[q].file_name] = 0]_vars

\* purge_queues() returns in this step
PurgeReturns == purgePc # 0 /\ purgePc' = 0

\* C10 as stated: when purge_queues() returns every primary and dead-letter
\* queue holds zero messages, whatever was enqueued or rejected meanwhile.
C10_AllEmptyAtReturn ==
  [][PurgeReturns => \A q \in Queues : queue'[q] = << >>]_vars

\* C10 amended: when purge_queues() returns, every primary and dead-letter
\* queue holds no message published before the call started; it may hold
\* messages published while the call was in progress.
C10_OnlyNewAtReturn ==
  [][PurgeReturns => \A q \in Queues : IdsIn(queue'[q]) \subseteq duringPurge']_vars

\* a purge has returned leaving behind a message published during it
C10_Witness ==
  /\ purgePc = 0
  /\ duringPurge # {}
  /\ \E q \in PrimaryQueues : IdsIn(queue[q]) \cap duringPurge # {}

\* messages delivered to a consumer of q and not yet acked or rejected
Unsettled(q) ==
  Cardinality(inflight[q]) + (IF cur[q] # NoMsg THEN 1 ELSE 0)

\* C11: for each task queue at most one delivered-but-unsettled message
\* exists at any time, for consumers registered by setup_consumer and by
\* process_queue alike.
C11_OneUnsettledPerQueue ==
  \A q \in PrimaryQueues : Unsettled(q) <= 1

\* ------------------------------------------------------------ save and handler claims
\* the key the handler of q saves for its current message
CurKey(q) == ContentKey(q, cur[q].file_name)

\* C16: save_processed_content called when a row with the same
\* (file_name, file_type) exists inserts nothing, raises nothing and leaves
\* every row as it is; sequential calls with one key leave a single row.
C16_SaveIdempotent ==
  [][\A q \in PrimaryQueues :
       (/\ hpc[q] = "check"
        /\ hpc'[q] # "check"
        /\ RowsWith(CurKey(q).file_name, CurKey(q).file_type) >= 1)
         => /\ RowsWith(CurKey(q).file_name, CurKey(q).file_type) = 1
            /\ rows' = rows
            /\ hpc'[q] = "skip"
            /\ cur'[q] = cur[q]
            /\ raised' = raised]_vars

\* a save has returned early because the row exists
C16_Witness ==
  \E q \in PrimaryQueues : hpc[q] = "skip" /\ Len(rows) = 1

C20_BatchNeverAborts ==
  [][(zipPc = "loop" /\ zipPc' # "loop") => (zipLeft = << >> /\ log' = stats)]_vars

\* ------------------------------------------------------------ pool claims
\* the connections in the pool list
PoolSet == {pool[i] : i \in DOMAIN pool}

\* the callers holding connection c
Holders(c) == {t \in Borrowers : leased[t] = c}

\* every connection opened so far by initialize or get_connection
Opened == 1..(nextConn - 1)

\* every opened connection is pooled, held by a caller, or closed
Accounted ==
  \A c \in Opened : c \in PoolSet \/ Holders(c) # {} \/ c \in closedConns

\* C12: a connection leased through get_connection() is, when the caller's
\* scope ends by return, exception or cancellation, handed to
\* release_connection, which appends it to the pool or closes it; no
\* connection is open while neither leased, pooled nor closed.
C12_ReleasedOnEveryExit ==
  [][/\ Accounted'
     /\ \A t \in Borrowers :
          /\ (cpc[t] = "body" /\ cpc'[t] # "body")
               => (cpc'[t] = "release" /\ leased'[t] = leased[t])
          /\ (cpc[t] = "release" /\ cpc'[t] # "release")
               => (leased[t] \in PoolSet' \/ cpc'[t] = "closing")
          /\ (cpc[t] = "closing" /\ cpc'[t] # "closing")
               => leased[t] \in closedConns']_vars

\* the connection of a cancelled scope is being closed by release_connection
C12_Witness ==
  \E t \in Callers : cpc[t] = "closing" /\ exitHow[t] = "cancel"

\* C13: each open connection is in the pool list exactly once or leased to
\* exactly one caller, never both, for any interleaving of scopes.
C13_ExclusiveOwnership ==
  /\ \A i, j \in DOMAIN pool : pool[i] = pool[j] => i = j
  /\ \A t, u \in Borrowers : (leased[t] # 0 /\ leased[t] = leased[u]) => t = u
  /\ \A t \in Borrowers : leased[t] # 0 => leased[t] \notin PoolSet
  /\ \A c \in Opened \ closedConns : (c \in PoolSet) # (Holders(c) # {})

\* two callers are inside their scopes at once while connections are idle
C13_Witness ==
  /\ pool # << >>
  /\ \E t, u \in Callers : t # u /\ cpc[t] = "body" /\ cpc[u] = "body"

\* C14: release_connection with pool_size (or more) idle connections in the
\* pool closes the released connection and leaves the list unchanged; with
\* fewer it appends the connection and closes nothing.
C14_ReleaseFrame ==
  [][\A t \in Borrowers :
       /\ (cpc[t] = "release" /\ cpc'[t] # "release")
            => IF Len(pool) >= pool_size
                 THEN pool' = pool /\ cpc'[t] = "closing"
                 ELSE /\ pool' = Append(pool, leased[t])
                      /\ closedConns' = closedConns
                      /\ cpc'[t] = "out"
       /\ (cpc[t] = "closing" /\ cpc'[t] # "closing")
            => /\ closedConns' = closedConns \cup {leased[t]}
               /\ pool' = pool]_vars

\* release_connection found the pool full and is closing the connection
C14_Witness ==
  \E t \in Callers : cpc[t] = "closing" /\ Len(pool) >= pool_size

\* callers holding a connection
Leasing == {t \in Borrowers : leased[t] # 0}

\* C15: get_connection() on an empty pool opens a new connection and yields
\* it; it never waits for a release, only for the pool mutex, so it can start
\* whenever the mutex is free, however many connections are leased.
C15_OpensWhenEmpty ==
  /\ [](\A t \in Borrowers :
          (cpc[t] = "out" /\ lock = Free /\ pool = << >> /\ MayOpen)
            => ENABLED get_connection(t))
  /\ [][\A t \in Borrowers :
          /\ (cpc[t] = "out" /\ cpc'[t] # "out" /\ pool = << >>)
               => (cpc'[t] = "opening" /\ lock' = t /\ pool' = pool)
          /\ (cpc[t] = "opening" /\ cpc'[t] # "opening")
               => /\ cpc'[t] = "body"
                  /\ leased'[t] \notin Opened
                  /\ leased'[t] \in Opened'
                  /\ lock' = Free]_vars

\* more connections are leased at once than pool_size
C15_Witness ==
  /\ pool = << >>
  /\ Cardinality(Leasing) > pool_size



\* ------------------------------------------------------------ archives
\* the step on which process_zip returns normally: the loop is over and
\* save_log has written the batch log
ZipCompletes == zipPc = "loop" /\ zipLeft = << >> /\ zipPc' = "idle"

\* entries of the archive being processed that get_file_type does not classify
UnsupportedEntries == {i \in DOMAIN all_files : get_file_type(all_files[i]) = None}

\* C21: for an archive with K entries of unsupported extension (regular
\* files, directory entries, entries inside sub-directories), when
\* process_zip completes unprocessed/ holds at least K files and the batch
\* log's failed_files is at least K.
C21_UnsupportedAccounted ==
  [][ZipCompletes =>
       /\ Cardinality({n \in EntryNames : unprocessed'[n] # 0})
            >= Cardinality(UnsupportedEntries)
       /\ log'.failed_files >= Cardinality(UnsupportedEntries)]_vars

\* entries of the archive being processed that get_file_type classifies
SupportedEntries == {i \in DOMAIN all_files : get_file_type(all_files[i]) # None}

\* number of entries of the error list naming n
ErrorsNaming(st, n) == Cardinality({j \in DOMAIN st.errors : st.errors[j] = n})

\* C22: when process_zip completes, total_files is the number of entries
\* with a supported extension, every unsupported entry has been moved to
\* unprocessed/, and the error list holds exactly one entry naming each
\* unsupported entry.
C22_UnsupportedRelocated ==
  [][ZipCompletes =>
       /\ log'.total_files = Cardinality(SupportedEntries)
       /\ \A i \in UnsupportedEntries :
            /\ unprocessed'[all_files[i]] # 0
            /\ staging'[all_files[i]] = 0
            /\ ErrorsNaming(log', all_files[i]) = 1]_vars

\* ------------------------------------------------------------ classification
\* extensions get_file_type is applied to: those of the tables, some of no
\* table, the empty suffix, and spellings in other letter case
CaseVariants ==
  { <<"pdf", "PDF">>, <<"mp3", "Mp3">>, <<"jpg", "JPG">>, <<"mov", "MOV">>,
    <<"xyz", "XYZ">> }

Extensions ==
  AudioExt \cup DocumentExt \cup ImageExt \cup VideoExt
    \cup {"", "xyz", "mkv"} \cup {v[2] : v \in CaseVariants}

\* a file name with extension e
WithExt(e) == [stem |-> "f", ext |-> e]

C24_SameClassification ==
  \A d \in DirectTasks :
    dfile[d] # NoName => process_single_file(dfile[d]) = get_file_type(dfile[d])

\* ------------------------------------------------------------ enqueue_task
\* the step of process_zip on which enqueue_task is called for the entry
\* at the head of the list
EnqueueCalled ==
  /\ zipPc = "loop" /\ zipLeft # << >> /\ zipLeft' # zipLeft
  /\ get_file_type(Head(zipLeft)) # None

C27_CloseDrainsPool ==
  [][/\ (~closing /\ closing') =>
          /\ pool' = << >>
          /\ \A i \in DOMAIN pool : pool[i] \in closedConns'
          /\ conn' = "open"
     /\ (closing /\ ~closing') =>
          /\ conn' = "closed"
          /\ pool' = << >>]_vars

\* ------------------------------------------------------------ end of a batch
\* C30: when process_zip has handled all entries and completes, it has
\* written the batch log exactly once and then invoked the query layer's
\* refresh hook, in that order.
C30_LogThenRefresh ==
  [][ZipCompletes => zipCalls' = << "save_log", "refresh" >>]_vars

\* ------------------------------------------------------------ check_queue_status
\* the step on which a call of check_queue_status runs and returns
StatusChecked == qstatus = NoStatus /\ qstatus' # NoStatus

\* C26: check_queue_status(name) changes nothing at the broker, whether it
\* succeeds or fails: the ready messages of every queue, the deliveries
\* held by the consumers and the set of registered consumers stay as they
\* were.
C26_StatusIsPassive ==
  [][StatusChecked =>
       /\ queue' = queue
       /\ cur' = cur
       /\ consumers' = consumers]_vars

\* ------------------------------------------------------------ shutdown
\* C28: on shutdown a message that was delivered and is not yet settled is
\* neither acknowledged nor rejected: no settlement of it reaches the broker
\* at the shutdown or afterwards, it is back on its queue for redelivery,
\* and it is on no dead-letter queue.
C28_ShutdownLeavesUnacked ==
  [][/\ (channel = "open" /\ channel' = "closed") =>
          \A q \in PrimaryQueues : cur[q] # NoMsg =>
            /\ settle'[cur[q].id] = << >>
            /\ cur[q].id \in IdsIn(queue'[q])
            /\ \A f \in FailedQueues : cur[q].id \notin IdsIn(queue'[f])
     /\ channel = "closed" =>
          /\ settle' = settle
          /\ \A x \in Queues : queue'[x] = queue[x]]_vars

\* the shutdown came while a handler held a message; the handler ended
\* afterwards, and the message waits on its queue without any settlement
C28_Witness ==
  /\ channel = "closed"
  /\ \E q \in PrimaryQueues : \E i \in raised :
       /\ i \in IdsIn(queue[q])
       /\ settle[i] = << >>
       /\ cur[q] = NoMsg

\* ------------------------------------------------------------ failure containment
\* the step on which the handler of q ends in a failure
HandlerFails(q) == cur[q] # NoMsg /\ cur[q].id \in raised' /\ cur[q].id \notin raised

\* C29: a handler failure on a queue leaves its consumer registered and
\* free for the next delivery and does not touch the other consumers; once
\* a failure has happened, every message waiting on a queue is eventually
\* delivered and settled.
C29_FailureKeepsConsumer ==
  /\ [](consumers = PrimaryQueues)
  /\ [][\A q \in PrimaryQueues : HandlerFails(q) =>
          /\ cur'[q] = NoMsg /\ hpc'[q] = "idle"
          /\ \A x \in PrimaryQueues \ {q} : cur'[x] = cur[x] /\ hpc'[x] = hpc[x]]_vars
  /\ \A q \in PrimaryQueues : \A i \in MsgIds :
       (raised # {} /\ i \in IdsIn(queue[q])) ~> (Len(settle[i]) = 1)

\* a message failed, and a later message for the same file, hence on the
\* same queue, was delivered and acknowledged
C29_Witness ==
  \E i \in raised : \E j \in MsgIds :
    /\ i < j
    /\ settle[i] = << "reject" >>
    /\ settle[j] = << "ack" >>
    /\ \E n \in SupportedNames : unprocessed[n] # 0 /\ processed[n] # 0

\* ------------------------------------------------------------ pool mutex
\* C31: _pool_lock is held only while the pool list is popped or pushed: no
\* task holds it while it opens or closes a connection, so the mutex is free
\* whenever a task is inside a storage operation.
C31_NoStorageUnderLock ==
  \A t \in Borrowers : cpc[t] \in {"opening", "closing"} => lock # t

\* ------------------------------------------------------------ batch statistics
\* the step of process_zip on which enqueue_task returned for the entry at
\* the head of the list: its task message was published
EnqueueReturned ==
  /\ zipPc = "loop" /\ zipLeft # << >>
  /\ nextMsg' = nextMsg + 1

\* a step of one of the consumers
ConsumerStep == hpc' # hpc

\* C32: process_zip returns without waiting for any consumer; during a
\* batch processed_files counts exactly the entries whose enqueue_task call
\* returned, whatever the consumers do with those files afterwards, the
\* batch log carries that count, and saved_to_db is never changed by
\* process_zip.
C32_EnqueueTimeStats ==
  /\ []((zipPc = "loop" /\ zipLeft = << >>) => ENABLED zip_finish)
  /\ [](stats.saved_to_db = 0 /\ log.saved_to_db = 0)
  /\ [][/\ (zipPc = "idle" /\ zipPc' = "loop") => stats'.processed_files = 0
        /\ (zipPc = "loop" /\ EnqueueReturned) =>
              stats'.processed_files = stats.processed_files + 1
        /\ (zipPc = "loop" /\ ~EnqueueReturned) =>
              stats'.processed_files = stats.processed_files
        /\ ConsumerStep => (stats' = stats /\ log' = log)
        /\ ZipCompletes => log'.processed_files = stats.processed_files]_vars

\* a batch of two enqueued entries has returned and written its log while
\* one of its files failed extraction and the message of the other has not
\* been delivered yet
C32_Witness ==
  /\ zipPc = "idle"
  /\ log.processed_files = 2
  /\ \E n \in SupportedNames : unprocessed[n] # 0
  /\ \E q \in PrimaryQueues : queue[q] # << >>
  /\ rows = << >>

\* ------------------------------------------------------------ acknowledgement
\* the step on which the broker receives the acknowledgement of the message
\* the consumer of q holds
Acks(q) ==
  /\ cur[q] # NoMsg
  /\ settle'[cur[q].id] = Append(settle[cur[q].id], "ack")

\* C33: a message is acknowledged only after its content has been persisted
\* (or found already present) and its file has been moved to processed/:
\* on the acknowledging step the row exists and the file stands in
\* processed/ and no longer in staging, and while extraction or the save is
\* pending the message has no settlement.
C33_AckAfterPersistAndMove ==
  /\ [](\A q \in PrimaryQueues :
          hpc[q] \in {"extract", "check", "insert"} => settle[cur[q].id] = << >>)
  /\ [][\A q \in PrimaryQueues : Acks(q) =>
          LET n == cur[q].file_name IN
            /\ hpc[q] \in {"move", "skip"}
            /\ Existing(ContentKey(q, n))
            /\ processed'[n] # 0 /\ processed'[n] = staging[n]
            /\ staging'[n] = 0]_vars

\* a message was acknowledged: its file is in processed/ with its row
C33_Witness ==
  \E i \in MsgIds : \E n \in SupportedNames : \E q \in PrimaryQueues :
    /\ settle[i] = << "ack" >>
    /\ processed[n] # 0 /\ staging[n] = 0
    /\ Existing(ContentKey(q, n))

\* ------------------------------------------------------------ file lifecycle
\* the step on which the handler of q leaves the state in which the content
\* of its file is persisted (PERSISTED: row committed or found, move pending)
LeavesPersisted(q) == hpc[q] \in {"move", "skip"} /\ hpc'[q] \notin {"move", "skip"}

\* C34: a file whose content the consumer has persisted proceeds to
\* processed/ and never to unprocessed/, also when the move to processed/
\* fails after the row was committed.
C34_PersistedGoesToProcessed ==
  [][\A q \in PrimaryQueues : LeavesPersisted(q) =>
       LET n == cur[q].file_name IN
         /\ processed'[n] # 0
         /\ processed'[n] = staging[n]
         /\ unprocessed'[n] = unprocessed[n]]_vars

\* ------------------------------------------------------------ processed/ and the table
\* processed_content holds a row with file_name n
HasRow(n) == \E i \in DOMAIN rows : rows[i].file_name = n

\* C35: every file that stands in processed/ has a row in processed_content
\* with its file_name, and on the step that moves a file into processed/
\* the row is already there.
C35_ProcessedHasRow ==
  /\ [](\A n \in Names : processed[n] # 0 => HasRow(n))
  /\ [][\A n \in Names : processed'[n] # processed[n] => HasRow(n)]_vars

\* a file was moved into processed/, and a later upload of the same name,
\* whose row was found present, is being moved too
C35_Witness ==
  \E q \in PrimaryQueues :
    /\ hpc[q] = "skip"
    /\ processed[cur[q].file_name] # 0
    /\ staging[cur[q].file_name] # 0
    /\ HasRow(cur[q].file_name)

\* ------------------------------------------------------------ settlement
\* C36: every delivered message is settled exactly once: the broker never
\* receives more than one settlement of a message, no handler issues a
\* second settlement after the message was settled, and no handler ends in
\* an unhandled exception.
C36_SettledOnceNoRaise ==
  /\ \A i \in MsgIds : Len(settle[i]) <= 1
  /\ raised = {}

\* ------------------------------------------------------------ accumulator
\* entries of the archive the loop of process_zip has handled so far
HandledSoFar == Len(all_files) - Len(zipLeft)

\* C37: in every state of a batch accumulator, during and after
\* process_zip, failed_files equals the number of entries of errors, and
\* processed_files + failed_files does not exceed the number of archive
\* entries handled so far.
C37_FailuresMatchErrors ==
  /\ stats.failed_files = Len(stats.errors)
  /\ stats.processed_files + stats.failed_files <= HandledSoFar
  /\ log.failed_files = Len(log.errors)

\* ------------------------------------------------------------ routing of tasks
\* the task messages waiting on queue x
TasksOn(x) == {queue[x][i] : i \in DOMAIN queue[x]}

\* C38: every task message published by process_zip or process_file sits
\* on the queue of the media type of its file: for every message on
\* {t}_processing, get_file_type(file_name) = t; no task names a file that
\* get_file_type does not classify, and no task is on any other queue.
C38_TaskOnOwnQueue ==
  /\ \A t \in MediaTypes : \A m \in TasksOn(QueueName(t)) :
       /\ get_file_type(json_loads(m.body)["file_name"]) = t
       /\ m.file_name = json_loads(m.body)["file_name"]
  /\ \A f \in FailedQueues : queue[f] = << >>

\* both endpoints have published: two tasks wait, on different queues, one
\* of them for an entry with an upper-case extension
C38_Witness ==
  /\ Len(queue["document_processing"]) = 1
  /\ Len(queue["audio_processing"]) = 1
  /\ queue["document_processing"][1].file_name.ext = "PDF"
  /\ stats.processed_files = 1

\* ------------------------------------------------------------ after close()
\* C39: once close() has completed, the pool is empty and stays empty, and
\* every connection that is not leased at that moment is closed: a
\* connection leased across close() is closed, not pooled, when its scope
\* exits.
C39_ClosedPoolStaysEmpty ==
  [][(conn = "closed" /\ conn' = "closed" /\ pool = << >>) =>
       /\ pool' = << >>
       /\ \A t \in Borrowers :
            (leased[t] # 0 /\ leased'[t] = 0) => leased[t] \in closedConns']_vars

\* ------------------------------------------------------------ extracted content
\* C40: a row is persisted only for a file whose text was actually
\* extracted: no row of processed_content holds the unsupported-format
\* placeholder as its content, and no file stands in processed/ on the
\* strength of such a row.
C40_NoPlaceholderRow ==
  /\ \A i \in DOMAIN rows : rows[i].content # Placeholder
  /\ \A n \in FileNames : processed[n] # 0 =>
       \E i \in DOMAIN rows : rows[i].file_name = n /\ rows[i].content = Text

=============================================================================
